---- MODULE Spec2Model ----
(***************************************************************************)
(* A model of the Physeter storage core (TypeScript sources):              *)
(*   - the name index (kernel/index.ts) and the work queue it extends      *)
(*     (lib/queue.ts), checked under SpecIndex;                            *)
(*   - the volume with its write stream, read stream and delete loop       *)
(*     (kernel/volume.ts), the track (kernel/track.ts) and the chunk codec *)
(*     (kernel/chunk.ts), checked under Spec, SpecStream and SpecTrack;    *)
(*   - File.write (lib/fs.ts) under SpecFile, the chunk codec alone under  *)
(*     SpecCodec, Index.initialize on a file found in the directory under  *)
(*     SpecScan, and the queue over failing appends under SpecQueue.       *)
(* The index steps at every await; the volume steps once per pass of a     *)
(* loop of the sources, and its client runs one operation at a time.       *)
(***************************************************************************)
EXTENDS Integers, Sequences, FiniteSets, TLC

VARIABLES
    \* ---- name index (class Index extends Queue)
    i_file,        \* the index file: the sequence of appended records
    i_cache,       \* Index.cache: hex key -> cache entry
    i_offsets,     \* Index.offsets_cache: the set of seen file offsets
    i_file_size,   \* Index.file_size
    q_queue,       \* Queue.queue
    q_worker,      \* Queue.worker
    q_loops,       \* the poll() loops that are running, each with its task_list
    i_results,     \* each Index.set call, by ticket: its task and what its
                   \* promise settled to
    i_hist,        \* history: per name, the heads of its last successful set
    i_get,         \* the last completed Index.get: its name and its result
    i_loaded,      \* history: nothing was set or removed since initialize
    q_waited,      \* history: two calls were waiting in the queue at once
    \* ---- volume
    tracks,        \* Volume.tracks: per track id, the Track object's fields
    disk,          \* the track files: header, length, packets by offset
    writer,        \* the write stream: Writer's fields, its position, and as
                   \* history its input and the offsets it was allocated
    reader,        \* the read stream: Reader's fields, its position, and as
                   \* history what it pushed
    del,           \* the running Volume.remove: its loop variables, and as
                   \* history the chain it was called on
    \* ---- a client of the Track objects
    cells,         \* history: per (track, offset), what the client did last
                   \* with the chunk there
    t_call,        \* history: the last call of a Track method and its result
    \* ---- File.write
    fw,            \* one File.write call: its buffer, the file, its position
    \* ---- Chunk
    codec,         \* one call of Chunk.encoder or Chunk.decoder: its
                   \* argument and what it returned
    \* ---- Index.initialize on a file found in the directory
    scan           \* the running load_all: where it is, and the record
                   \* number whose read it awaits

ivars == <<i_file, i_cache, i_offsets, i_file_size, q_queue, q_worker, q_loops,
           i_results, i_hist, i_get, i_loaded, q_waited>>

vvars == <<tracks, disk, writer, reader, del>>

tvars == <<cells, t_call>>

fvars == <<fw>>

cvars == <<codec>>

svars == <<scan>>

vars == <<ivars, vvars, tvars, fvars, cvars, svars>>

\* ------------------------------------------------------------------ bounds

\* Index.set calls submitted in one behaviour.
MaxCalls == 3

\* The highest track id a write stream may move to.
MaxTrack == 1

\* Passes of the loop of Writer._write that one stream makes.
MaxId == 2

\* Track.write calls of the client of the Track objects.
MaxWrites == 2

\* Passes of that loop where only write streams run.
MaxPass == 3

\* Chunks one read stream pushes.
MaxOut == 2

\* Calls of Writer._write that one stream gets.
MaxPush == 2

\* Chunks by which Track.remove may take Track.size below the header.
MaxUnder == 1

\* The longest buffer handed to File.write.
MaxLen == 3

\* The highest file position handed to File.write.
MaxOffset == 2

\* ------------------------------------------------------- program constants

\* options.chunk_size and options.track_size, as configured: chunks of 64
\* bytes, two chunks to a track.
chunk_size == 64

track_size == 144

\* The most records of an index file found in the directory.
MaxRecords == 3

\* The length of an index record and the stride of Index.parse.
RecordSize == 54
\* The fixed two bytes that open an index record (0x9900).
Magic == 39168
\* The Queue limit Index passes to its super constructor.
Limit == 1

\* ------------------------------------------------------------------ inputs

\* Object names. "ha" is the name that spells the hex digest of "a".
Names == {"a", "b", "ha"}

\* Chain heads a caller passes to Index.set, as [track, offset]: the k-th
\* call stores the head of the k-th object, and the metadata chain is unused.
ChunkHeads(k) == {<<k % 2, 16 + 64 * (k - 1)>>}
MetaHeads == {<<0, 0>>}

\* hash(name).toString("hex"): SHA-256 as an injective map to fresh strings.
hash(name) ==
    CASE name = "a" -> "ha"
      [] name = "b" -> "hb"
      [] name = "ha" -> "hha"

HexKeys == {hash(n) : n \in Names}

\* ------------------------------------------------------------- index codec

\* Encoder: start_matedata goes to bytes 34..43, start_chunk to bytes 44..53.
\* ticket is history only (which call appended the record); nothing reads it.
Encoder(index, ticket) ==
    [len |-> RecordSize, magic |-> Magic, key |-> index.key,
     f34 |-> index.start_matedata, f44 |-> index.start_chunk,
     ticket |-> ticket]

\* What Decoder returns for a record it rejects.
NullIndex == [ok |-> FALSE, key |-> "", start_chunk |-> <<0, 0>>,
              start_matedata |-> <<0, 0>>]

\* Decoder: bytes 34..43 are read as matedata_track/matedata_index and
\* returned as start_chunk, bytes 44..53 as chunk_track/chunk_index and
\* returned as start_matedata.
Decoder(chunk) ==
    IF chunk.len # RecordSize THEN NullIndex
    ELSE IF chunk.magic # Magic THEN NullIndex
    ELSE [ok |-> TRUE, key |-> chunk.key,
          start_chunk |-> chunk.f34, start_matedata |-> chunk.f44]

\* ------------------------------------------------------------------- cache

NoEntry == [present |-> FALSE, offset |-> 0, start_chunk |-> <<0, 0>>,
            start_matedata |-> <<0, 0>>]

CacheEntry(offset, start_chunk, start_matedata) ==
    [present |-> TRUE, offset |-> offset, start_chunk |-> start_chunk,
     start_matedata |-> start_matedata]

EmptyCache == [k \in HexKeys |-> NoEntry]

\* Map.has / Map.set / Map.delete on the cache.
CacheHas(cache, key_hex) == key_hex \in HexKeys /\ cache[key_hex].present

CacheSet(cache, key_hex, entry) == [cache EXCEPT ![key_hex] = entry]

CacheDelete(cache, key) ==
    IF key \in HexKeys THEN [cache EXCEPT ![key] = NoEntry] ELSE cache

\* ------------------------------------------------------------- Index.parse

\* The record Index.parse reads at i * 54 (the file holds whole records,
\* except possibly a last short one).
RecordAt(file, i) == file[i + 1]

\* Index.parse with load_all's handle, from record number i: every decoded
\* record is put in the cache under its key and its offset marked as seen;
\* the handle returns false, so the loop runs to the end of the file.
RECURSIVE LoadFrom(_, _, _, _)
LoadFrom(file, i, cache, offsets) ==
    IF (i * RecordSize) \in offsets THEN LoadFrom(file, i + 1, cache, offsets)
    ELSE IF i >= Len(file) THEN [cache |-> cache, offsets |-> offsets]
    ELSE LET value == Decoder(RecordAt(file, i))
         IN  IF ~value.ok THEN LoadFrom(file, i + 1, cache, offsets)
             ELSE LoadFrom(file, i + 1,
                      CacheSet(cache, value.key,
                          CacheEntry(i * RecordSize, value.start_chunk,
                                     value.start_matedata)),
                      offsets \cup {i * RecordSize})

load_all(file) == LoadFrom(file, 0, EmptyCache, {})

\* Index.parse with Index.get's handle, from record number i: seen offsets
\* are skipped, and the first decoded record whose key matches stops the loop.
NoHit == [hit |-> FALSE, offset |-> 0, start_chunk |-> <<0, 0>>,
          start_matedata |-> <<0, 0>>]

RECURSIVE ScanFrom(_, _, _, _)
ScanFrom(file, i, offsets, key) ==
    IF (i * RecordSize) \in offsets THEN ScanFrom(file, i + 1, offsets, key)
    ELSE IF i >= Len(file) THEN NoHit
    ELSE LET value == Decoder(RecordAt(file, i))
         IN  IF ~value.ok THEN ScanFrom(file, i + 1, offsets, key)
             ELSE IF value.key # key THEN ScanFrom(file, i + 1, offsets, key)
             ELSE [hit |-> TRUE, offset |-> i * RecordSize,
                   start_chunk |-> value.start_chunk,
                   start_matedata |-> value.start_matedata]

\* --------------------------------------------------------------- Index.get

NullResult == [found |-> FALSE, start_chunk |-> <<0, 0>>,
               start_matedata |-> <<0, 0>>]

Found(start_chunk, start_matedata) ==
    [found |-> TRUE, start_chunk |-> start_chunk,
     start_matedata |-> start_matedata]

\* What Index.get(name) returns in the current state.
GetResult(name, file, cache, offsets) ==
    LET key_hex == hash(name)
    IN  IF CacheHas(cache, key_hex)
        THEN Found(cache[key_hex].start_chunk, cache[key_hex].start_matedata)
        ELSE LET s == ScanFrom(file, 0, offsets, key_hex)
             IN  IF s.hit THEN Found(s.start_chunk, s.start_matedata)
                 ELSE NullResult

\* Index.get(name): a cache hit returns the entry; a miss scans the file and
\* caches the record it stopped at.
get(name) ==
    LET key_hex == hash(name)
        s == ScanFrom(i_file, 0, i_offsets, key_hex)
    IN  /\ i_get' = [name |-> name, hist |-> i_hist[name],
                     loaded |-> i_loaded,
                     result |-> GetResult(name, i_file, i_cache, i_offsets)]
        /\ IF ~CacheHas(i_cache, key_hex) /\ s.hit
           THEN /\ i_offsets' = i_offsets \cup {s.offset}
                /\ i_cache' = CacheSet(i_cache, key_hex,
                       CacheEntry(s.offset, s.start_chunk, s.start_matedata))
           ELSE UNCHANGED <<i_cache, i_offsets>>
        /\ UNCHANGED <<i_file, i_file_size, q_queue, q_worker, q_loops,
                       i_results, i_hist, i_loaded, q_waited>>

\* --------------------------------------------------------- Index.set_index

\* The state set_index works on.
IndexState(cache, offsets, file_size) ==
    [cache |-> cache, offsets |-> offsets, file_size |-> file_size]

NoPacket == [len |-> 0, magic |-> 0, key |-> "", f34 |-> <<0, 0>>,
             f44 |-> <<0, 0>>, ticket |-> 0]

\* A set_index that never finds a duplicate.
IsDuplicateMutant(cache, key_hex) == FALSE

\* The duplicate check of set_index.
IsDuplicate(cache, key_hex) == CacheHas(cache, key_hex)

\* set_index up to its await of file.append: a duplicate returns false at
\* once; otherwise the offset is marked as seen, the cache entry is inserted
\* at offset file_size and the encoded record is handed to file.append.
set_index(st, task) ==
    LET key_hex == hash(task.name)
    IN  IF IsDuplicate(st.cache, key_hex)
        THEN [st |-> st,
              run |-> [task |-> task, pc |-> "returned", result |-> FALSE,
                       packet |-> NoPacket]]
        ELSE [st |-> IndexState(
                        CacheSet(st.cache, key_hex,
                            CacheEntry(st.file_size, task.start_chunk,
                                       task.start_matedata)),
                        st.offsets \cup {st.file_size},
                        st.file_size),
              run |-> [task |-> task, pc |-> "append", result |-> FALSE,
                       packet |-> Encoder([key |-> key_hex,
                                           start_chunk |-> task.start_chunk,
                                           start_matedata |-> task.start_matedata],
                                          task.ticket)]]

\* ------------------------------------------------------------------- Queue

\* A call that pushes to the back, where pop() takes from.
UnshiftMutant(queue, item) == Append(queue, item)

\* Array.unshift: the new item goes to the front.
Unshift(queue, item) == <<item>> \o queue

\* A poll() that starts a loop whether or not one is working.
PollBusyMutant(worker) == FALSE

\* The early return of poll(): a loop is already working.
PollBusy(worker) == worker

\* How many tasks one loop iteration takes: limit pops, undefined dropped.
TakeCount(queue, limit) == IF Len(queue) < limit THEN Len(queue) ELSE limit

\* task_list: queue.pop() takes from the back, limit times.
task_list(queue, limit) ==
    [k \in 1..TakeCount(queue, limit) |-> queue[Len(queue) + 1 - k]]

AfterPops(queue, limit) ==
    SubSeq(queue, 1, Len(queue) - TakeCount(queue, limit))

\* Promise.all(task_list.map(...)): every task's handle runs up to its first
\* await, in task_list order.
RECURSIVE StartTasks(_, _, _)
StartTasks(st, tasks, runs) ==
    IF tasks = <<>> THEN [st |-> st, runs |-> runs]
    ELSE LET r == set_index(st, Head(tasks))
         IN  StartTasks(r.st, Tail(tasks), Append(runs, r.run))

\* The promises settled by a batch start: a duplicate resolves to false.
RECURSIVE SettleReturned(_, _)
SettleReturned(results, runs) ==
    IF runs = <<>> THEN results
    ELSE SettleReturned(
             IF Head(runs).pc = "returned" /\ ~Head(runs).result
             THEN [results EXCEPT ![Head(runs).task.ticket].state = "false"]
             ELSE results,
             Tail(runs))

\* One iteration of the poll loop on a non-empty queue, for loop number l
\* (l = Len(q_loops) + 1 starts a new loop).
PollIteration(queue, results, l) ==
    LET b == StartTasks(IndexState(i_cache, i_offsets, i_file_size),
                        task_list(queue, Limit), <<>>)
    IN  /\ q_queue' = AfterPops(queue, Limit)
        /\ i_cache' = b.st.cache
        /\ i_offsets' = b.st.offsets
        /\ i_file_size' = b.st.file_size
        /\ i_results' = SettleReturned(results, b.runs)
        /\ q_loops' = IF l > Len(q_loops) THEN Append(q_loops, b.runs)
                      ELSE [q_loops EXCEPT ![l] = b.runs]

\* Index.set(index) = Queue.call(task): unshift, then poll(), which returns
\* at once when a loop is working and otherwise starts one.
call(name, start_chunk, start_matedata) ==
    LET ticket == Len(i_results) + 1
        task == [name |-> name, start_chunk |-> start_chunk,
                 start_matedata |-> start_matedata, ticket |-> ticket]
        queue == Unshift(q_queue, task)
        results == Append(i_results, [task |-> task, state |-> "pending"])
    IN  /\ ticket <= MaxCalls
        /\ i_loaded' = FALSE
        /\ q_waited' = (q_waited \/ (PollBusy(q_worker) /\ Len(queue) >= 2))
        /\ IF PollBusy(q_worker)
           THEN /\ q_queue' = queue
                /\ i_results' = results
                /\ UNCHANGED <<i_cache, i_offsets, i_file_size, q_loops,
                               q_worker>>
           ELSE /\ q_worker' = TRUE
                /\ PollIteration(queue, results, Len(q_loops) + 1)
        /\ UNCHANGED <<i_file, i_hist, i_get>>

\* fs.appendFile of a run's record completes.
append(l, r) ==
    /\ q_loops[l][r].pc = "append"
    /\ i_file' = Append(i_file, q_loops[l][r].packet)
    /\ q_loops' = [q_loops EXCEPT ![l][r].pc = "appended"]
    /\ UNCHANGED <<i_cache, i_offsets, i_file_size, q_queue, q_worker,
                   i_results, i_hist, i_get, i_loaded, q_waited>>

RemoveAt(seq, l) == SubSeq(seq, 1, l - 1) \o SubSeq(seq, l + 1, Len(seq))

\* A catch that settles every waiting promise with the error.
reject_all(results, ticket) ==
    [k \in 1..Len(results) |->
        IF results[k].state = "pending"
        THEN [results[k] EXCEPT !.state = "rejected"] ELSE results[k]]

\* poll's catch (err) { reject(err) }: the promise of the task whose handle
\* threw is rejected.
reject(results, ticket) == [results EXCEPT ![ticket].state = "rejected"]

\* A poll loop that the error of a handle ends.
uncaught(loops, l, r) == RemoveAt(loops, l)

\* The try / catch is inside the callback handed to Promise.all: the
\* callback of the task ends normally, and the loop goes on.
caught(loops, l, r) == [loops EXCEPT ![l][r].pc = "returned"]

\* fs.appendFile of a run's record fails: File.append rejects, set_index
\* throws at its await, and poll catches the error. Nothing was written.
append_fails(l, r) ==
    /\ q_loops[l][r].pc = "append"
    /\ q_loops' = caught(q_loops, l, r)
    /\ i_results' = reject(i_results, q_loops[l][r].task.ticket)
    /\ UNCHANGED <<i_file, i_cache, i_offsets, i_file_size, q_queue, q_worker,
                   i_hist, i_get, i_loaded, q_waited>>

\* set_index after its await: file_size advances and the call resolves true.
set_index_resume(l, r) ==
    LET run == q_loops[l][r]
    IN  /\ run.pc = "appended"
        /\ i_file_size' = i_file_size + RecordSize
        /\ q_loops' = [q_loops EXCEPT ![l][r].pc = "returned",
                                      ![l][r].result = TRUE]
        /\ i_results' = [i_results EXCEPT ![run.task.ticket].state = "true"]
        /\ i_hist' = [i_hist EXCEPT ![run.task.name] =
                         [state |-> "set",
                          start_chunk |-> run.task.start_chunk,
                          start_matedata |-> run.task.start_matedata]]
        /\ UNCHANGED <<i_file, i_cache, i_offsets, q_queue, q_worker, i_get,
                       i_loaded, q_waited>>

\* The poll loop after Promise.all resolved: an empty queue ends the loop
\* and clears worker; otherwise the next task_list is taken.
poll_next(l) ==
    /\ \A r \in 1..Len(q_loops[l]) : q_loops[l][r].pc = "returned"
    /\ IF q_queue = <<>>
       THEN /\ q_worker' = FALSE
            /\ q_loops' = RemoveAt(q_loops, l)
            /\ UNCHANGED <<i_cache, i_offsets, i_file_size, q_queue,
                           i_results>>
       ELSE /\ PollIteration(q_queue, i_results, l)
            /\ UNCHANGED q_worker
    /\ UNCHANGED <<i_file, i_hist, i_get, i_loaded, q_waited>>

\* ------------------------------------------------------------ Index.remove

\* Index.remove(name): cache.delete is called with the name itself.
remove_key(name) == name

RemovedHist(h) ==
    IF h.state \in {"set", "stored"} THEN [h EXCEPT !.state = "removed"] ELSE h

remove(name) ==
    /\ i_cache' = CacheDelete(i_cache, remove_key(name))
    /\ i_hist' = [i_hist EXCEPT ![name] = RemovedHist(i_hist[name])]
    /\ i_loaded' = FALSE
    /\ UNCHANGED <<i_file, i_offsets, i_file_size, q_queue, q_worker,
                   q_loops, i_results, i_get, q_waited>>

\* -------------------------------------------------------- Index.initialize

StoredHist(h) == IF h.state = "set" THEN [h EXCEPT !.state = "stored"] ELSE h

\* A new Index on the same file, after a clean stop (no set pending):
\* file_size is the file's length, then load_all fills the cache.
initialize ==
    /\ q_loops = <<>> /\ q_queue = <<>>
    /\ i_file_size' = Len(i_file) * RecordSize
    /\ i_cache' = load_all(i_file).cache
    /\ i_offsets' = load_all(i_file).offsets
    /\ q_worker' = FALSE
    /\ i_hist' = [n \in Names |-> StoredHist(i_hist[n])]
    /\ i_loaded' = TRUE
    /\ UNCHANGED <<i_file, q_queue, q_loops, i_results, i_get, q_waited>>

\* ============================================================ chunk codec

\* JavaScript's undefined, where the sources tell it from 0.
Undefined == -1

\* The header of a track file: free_start at byte 0, free_end at byte 8.
HeaderSize == 16

\* Writer.diff_size and Chunk.diff_size.
diff_size == chunk_size - 17

\* The bytes of a packet from byte 17 on, as a sequence of
\* chunk_size - 17 values: data.copy(packet, 17) into Buffer.alloc.
Pad(data) ==
    [k \in 1..(chunk_size - 17) |-> IF k <= Len(data) THEN data[k] ELSE 0]

\* An encoder that leaves the next_track field of the packet 0.
encoder_without_track(chunk) ==
    [id |-> chunk.id,
     valid |-> 1,
     size |-> IF diff_size # 0 THEN 0 ELSE Len(chunk.data),
     next |-> IF chunk.next = Undefined THEN 0 ELSE chunk.next,
     next_track |-> 0,
     data |-> Pad(chunk.data)]

\* Chunk.encoder: the fields of the packet.
encoder(chunk) ==
    [id |-> chunk.id,
     valid |-> 1,
     size |-> IF diff_size # 0 THEN 0 ELSE Len(chunk.data),
     next |-> IF chunk.next = Undefined THEN 0 ELSE chunk.next,
     next_track |-> IF chunk.next_track = Undefined THEN 0
                    ELSE chunk.next_track,
     data |-> Pad(chunk.data)]

\* Buffer.subarray(17, end) of a packet.
Subarray17(data, end) ==
    IF end <= 17 THEN <<>>
    ELSE SubSeq(data, 1, (IF end > chunk_size THEN chunk_size ELSE end) - 17)

\* Buffer.readInt16BE of a field that holds the 16 bits of stored, given
\* as the unsigned number they spell: two's complement.
readInt16BE(stored) == IF stored >= 32768 THEN stored - 65536 ELSE stored

\* Chunk.decoder.
decoder(packet) ==
    [id |-> packet.id,
     exist |-> (packet.valid = 1),
     next |-> IF packet.next = 0 THEN Undefined ELSE packet.next,
     next_track |-> IF readInt16BE(packet.next_track) = 0 THEN Undefined
                    ELSE readInt16BE(packet.next_track),
     data |-> Subarray17(packet.data,
                         IF packet.size = 0 THEN diff_size ELSE packet.size)]

\* Chunk.lazy_decoder.
lazy_decoder(packet) ==
    [next |-> IF packet.next = 0 THEN Undefined ELSE packet.next,
     next_track |-> IF readInt16BE(packet.next_track) = 0 THEN Undefined
                    ELSE readInt16BE(packet.next_track)]

\* ============================================================= track file

TrackIds == 0..MaxTrack

\* A track file that does not exist.
NoFile == [exists |-> FALSE, head |-> 0, tail |-> 0, len |-> 0,
           chunks |-> <<>>]

\* A packet of zero bytes: what a file holds where nothing was written.
ZeroPacket == [id |-> 0, valid |-> 0, size |-> 0, next |-> 0,
               next_track |-> 0, data |-> Pad(<<>>)]

\* The packet the file holds at offset.
PacketAt(file, offset) ==
    IF offset \in DOMAIN file.chunks THEN file.chunks[offset] ELSE ZeroPacket

\* Buffer.allocUnsafeSlow(chunk_size) that no read has filled: its bytes
\* are whatever the memory held. Two of the packets it can spell.
Uninitialized == {ZeroPacket, [ZeroPacket EXCEPT !.next = HeaderSize]}

\* File.read of chunk_size bytes at offset into an uninitialised buffer:
\* the number of bytes read and what the buffer can hold afterwards.
FileRead(file, offset) ==
    IF offset + chunk_size <= file.len
    THEN {[size |-> chunk_size, packet |-> PacketAt(file, offset)]}
    ELSE {[size |-> 0, packet |-> p] : p \in Uninitialized}

\* File.write of bytes of the packet at offset: the file grows to hold it.
FilePatch(file, offset, packet) ==
    [file EXCEPT
        !.chunks = [o \in (DOMAIN file.chunks) \cup {offset} |->
                       IF o = offset THEN packet ELSE file.chunks[o]],
        !.len = IF offset + chunk_size > file.len
                THEN offset + chunk_size ELSE file.len]

\* ================================================================== Track

\* The slot of a track id for which no Track object exists.
NoTrack == [open |-> FALSE, free_start |-> 0, free_end |-> 0, size |-> 0]

\* Track.default_header: the zeroed header is written, size becomes 16.
default_header(mem, file) ==
    [mem |-> [mem EXCEPT !.size = HeaderSize],
     file |-> [file EXCEPT !.head = 0, !.tail = 0,
                           !.len = IF file.len < HeaderSize THEN HeaderSize
                                   ELSE file.len]]

\* Track.read_free.
read_free(mem, file) ==
    IF mem.size = 0 THEN default_header(mem, file)
    ELSE [mem |-> [mem EXCEPT !.free_start = file.head,
                              !.free_end = file.tail],
          file |-> file]

\* new Track(id, options) followed by Track.initialize: the file is created
\* when missing, size is the file's length.
TrackInitialize(file) ==
    LET opened == IF file.exists THEN file ELSE [NoFile EXCEPT !.exists = TRUE]
    IN  read_free([open |-> TRUE, free_start |-> 0, free_end |-> 0,
                   size |-> opened.len], opened)

\* A Track.alloc that keeps free_end when it empties the free list.
TrackAllocKeepsTail(mem, packet) ==
    IF mem.free_start = 0
    THEN [mem |-> mem, index |-> mem.size]
    ELSE LET value == lazy_decoder(packet)
             free_start == IF value.next = Undefined THEN 0 ELSE value.next
         IN  [mem |-> [mem EXCEPT !.free_start = free_start],
              index |-> mem.free_start]

\* A Track.alloc that advances size when it returns it.
TrackAllocMutant(mem, packet) ==
    IF mem.free_start = 0
    THEN [mem |-> [mem EXCEPT !.size = mem.size + chunk_size],
          index |-> mem.size]
    ELSE LET value == lazy_decoder(packet)
             free_start == IF value.next = Undefined THEN 0 ELSE value.next
         IN  [mem |-> [mem EXCEPT !.free_start = free_start,
                                  !.free_end = IF free_start = 0 THEN 0
                                               ELSE mem.free_end],
              index |-> mem.free_start]

\* Track.alloc, given what its read of the free chunk left in the buffer.
\* Only the object changes.
TrackAlloc(mem, packet) ==
    IF mem.free_start = 0
    THEN [mem |-> mem, index |-> mem.size]
    ELSE LET value == lazy_decoder(packet)
             free_start == IF value.next = Undefined THEN 0 ELSE value.next
         IN  [mem |-> [mem EXCEPT !.free_start = free_start,
                                  !.free_end = IF free_start = 0 THEN 0
                                               ELSE mem.free_end],
              index |-> mem.free_start]

\* Track.write.
TrackWrite(file, chunk, index) == FilePatch(file, index, encoder(chunk))

\* A Track.write_end that writes both fields at file offset 0.
write_end_at_0(mem, file) ==
    [file EXCEPT !.head = mem.free_end]

\* Track.write_end.
write_end(mem, file) ==
    [file EXCEPT !.head = mem.free_start, !.tail = mem.free_end]

\* Track.read, given what its read left in the buffer.
TrackRead(packet) == decoder(packet)

NoValue == [next |-> Undefined, next_track |-> Undefined]

\* One pass of the loop of Track.remove of the track with this id, at
\* offset, in pass i, given the outcome of its read. ret is "break" (the
\* method returns undefined), "return" (it returns value) or "continue".
TrackRemovePass(id, mem, file, offset, i, rd) ==
    IF offset >= track_size \/ rd.size = 0
    THEN [mem |-> mem, file |-> file, ret |-> "break", offset |-> offset,
          value |-> NoValue]
    ELSE
    LET value == lazy_decoder(rd.packet)
        mem1 == [mem EXCEPT !.size = mem.size - chunk_size]
        file1 == FilePatch(file, offset,
                           [PacketAt(file, offset) EXCEPT !.valid = 0])
        init == (mem1.free_start = 0)
        mem2 == IF init THEN [mem1 EXCEPT !.free_start = offset] ELSE mem1
        file2 == IF init THEN [file1 EXCEPT !.head = offset] ELSE file1
        file3 == IF mem2.free_end > 0 /\ i = 0
                 THEN FilePatch(file2, mem2.free_end,
                          [PacketAt(file2, mem2.free_end)
                              EXCEPT !.next = offset])
                 ELSE file2
    IN  IF value.next = Undefined
        THEN [mem |-> [mem2 EXCEPT !.free_end = offset],
              file |-> [file3 EXCEPT !.head = offset],
              ret |-> "break", offset |-> offset, value |-> value]
        ELSE [mem |-> mem2, file |-> file3,
              ret |-> IF value.next_track # id THEN "return" ELSE "continue",
              offset |-> value.next, value |-> value]

\* ================================================================= Volume

\* Volume.create.
create(trk, dsk, track_id) ==
    LET r == TrackInitialize(dsk[track_id])
    IN  [tracks |-> [trk EXCEPT ![track_id] = r.mem],
         disk |-> [dsk EXCEPT ![track_id] = r.file]]

\* tracks[track_id] !== undefined
IsTrack(trk, track_id) == track_id \in TrackIds /\ trk[track_id].open

\* Volume.initialize in a fresh process: a Track is created for every track
\* file of the directory. Track 0 exists since the first start.
VolumeInitialize(dsk) ==
    [t \in TrackIds |->
        IF dsk[t].exists THEN TrackInitialize(dsk[t]).mem ELSE NoTrack]

\* ----------------------------------------------------------------- chains

\* The chunk offsets of a track file.
ChunkOffsets ==
    {HeaderSize + k * chunk_size : k \in 0..((track_size - HeaderSize) \div chunk_size - 1)}

\* The (track, offset) pairs handed to Volume.read and Volume.remove.
Starts == TrackIds \X ChunkOffsets

\* The track file of the cell exists and holds a whole packet at its offset.
InFile(dsk, cell) ==
    /\ cell[1] \in TrackIds
    /\ cell[2] \in ChunkOffsets
    /\ dsk[cell[1]].exists
    /\ cell[2] + chunk_size <= dsk[cell[1]].len

\* The cells visited from a cell along the stored (next_track, next), a
\* next of 0 ending the walk, in at most fuel steps.
RECURSIVE ChainFrom(_, _, _)
ChainFrom(dsk, cell, fuel) ==
    IF fuel = 0 \/ ~InFile(dsk, cell) THEN <<>>
    ELSE LET p == PacketAt(dsk[cell[1]], cell[2])
         IN  IF p.next = 0 THEN <<cell>>
             ELSE <<cell>> \o ChainFrom(dsk, <<p.next_track, p.next>>, fuel - 1)

Chain(dsk, head) == ChainFrom(dsk, head, Cardinality(Starts) + 1)

\* A well-formed chain: the walk from head visits written chunks with
\* valid = 1, none twice, and ends at a chunk whose next is 0.
WellFormedChain(dsk, head) ==
    LET c == Chain(dsk, head)
    IN  /\ c # <<>>
        /\ \A j, k \in 1..Len(c) : j # k => c[j] # c[k]
        /\ \A k \in 1..Len(c) :
               /\ c[k][2] \in DOMAIN dsk[c[k][1]].chunks
               /\ dsk[c[k][1]].chunks[c[k][2]].valid = 1
        /\ PacketAt(dsk[c[Len(c)][1]], c[Len(c)][2]).next = 0

\* ------------------------------------------------------------- the client

NoReader == [pc |-> "none", track |-> 0, index |-> 0, out |-> <<>>,
             chunks |-> 0, start |-> <<0, 0>>, after |-> FALSE]

NoDelete == [pc |-> "none", track_id |-> 0, offset |-> 0, i |-> 0,
             wf |-> FALSE, chain |-> <<>>]

\* The client runs one operation at a time: a write stream it has not
\* ended, a read stream that has not ended, or a Volume.remove that has not
\* settled keeps it from starting the next.
Busy ==
    \/ writer.pc \in {"idle", "loop"}
    \/ reader.pc = "open"
    \/ del.pc = "run"

\* ----------------------------------------------------------------- Writer

NoPrevious == [some |-> FALSE, track |-> 0, index |-> 0, id |-> 0,
               data |-> <<>>, next |-> Undefined, next_track |-> Undefined]

\* History of the client's first operations on a fresh volume: "fresh"
\* before any, "A" once a stream of 1 to D bytes has closed, "AD" once
\* Volume.remove was then called, "ADB" once a second stream of as many bytes
\* has closed after that, "off" in every other case. With "A" go the
\* lengths of the track files and the offsets the stream was allocated.
NoScen == [stage |-> "off", n |-> 0, len |-> <<>>, allocs |-> <<>>]

NoWriter == [pc |-> "none", buffer |-> <<>>, previous |-> NoPrevious,
             id |-> 0, track |-> 0, write_tracks |-> {},
             input |-> <<>>, pushes |-> 0, allocs |-> <<>>, scen |-> NoScen,
             ended |-> {}]

\* The lengths of the buffers handed to _write.
PushLens == {1, diff_size - 1, diff_size, diff_size + 1, 2 * diff_size + 1}

\* The bytes of a stream's input: byte k of the input has value k.
Bytes(from, n) == [k \in 1..n |-> from + k]

\* Volume.write: new Writer. The streams of finished operations are dropped.
OpenWriter ==
    /\ ~Busy
    /\ writer' = [NoWriter EXCEPT
                     !.pc = "idle",
                     !.scen = IF writer.scen.stage \in {"fresh", "AD"}
                              THEN writer.scen ELSE NoScen]
    /\ reader' = NoReader
    /\ del' = NoDelete
    /\ UNCHANGED <<tracks, disk>>
    /\ UNCHANGED <<ivars, tvars, fvars, cvars, svars>>

\* Writer._write up to its loop: the chunk is appended to the buffer; a
\* buffer shorter than diff_size calls back at once.
Push ==
    /\ writer.pc = "idle"
    /\ writer.pushes < MaxPush
    /\ \E n \in PushLens :
        LET chunk == Bytes(Len(writer.input), n)
            buffer == writer.buffer \o chunk
        IN  writer' = [writer EXCEPT
                   !.buffer = buffer,
                   !.input = writer.input \o chunk,
                   !.pushes = writer.pushes + 1,
                   !.pc = IF Len(buffer) < diff_size THEN "idle" ELSE "loop"]
    /\ UNCHANGED <<tracks, disk, reader, del>>
    /\ UNCHANGED <<ivars, tvars, fvars, cvars, svars>>

\* A Writer.alloc that stays on a track that is full.
WriterAllocStays(trk, track) ==
    IF track > MaxTrack THEN [track |-> track, created |-> FALSE]
    ELSE IF ~trk[track].open THEN [track |-> track, created |-> TRUE]
    ELSE [track |-> track, created |-> FALSE]

\* Writer.alloc: the track the loop stops at, and whether it was created by
\* the callback.
RECURSIVE WriterAlloc(_, _)
WriterAlloc(trk, track) ==
    IF track > MaxTrack THEN [track |-> track, created |-> FALSE]
    ELSE IF ~trk[track].open THEN [track |-> track, created |-> TRUE]
    ELSE IF trk[track].size + chunk_size > track_size
    THEN WriterAlloc(trk, track + 1)
    ELSE [track |-> track, created |-> FALSE]

\* buffer.slice(end)
Slice(buffer, end) ==
    IF end >= Len(buffer) THEN <<>> ELSE SubSeq(buffer, end + 1, Len(buffer))

\* One pass of the loop of Writer._write, of a stream that made fewer than
\* cap passes. offset stays 0, so start is 0 and end is diff_size in every
\* pass.
WritePass(cap) ==
    /\ writer.pc = "loop"
    /\ LET end == 0 * diff_size + diff_size
       IN
       IF end >= Len(writer.buffer)
       THEN /\ writer' = [writer EXCEPT !.buffer = Slice(writer.buffer, end),
                                        !.pc = "idle"]
            /\ UNCHANGED <<tracks, disk>>
       ELSE
       LET a == WriterAlloc(tracks, writer.track)
       IN  /\ a.track <= MaxTrack
           /\ writer.id < cap
           /\ LET c == IF a.created THEN create(tracks, disk, a.track)
                       ELSE [tracks |-> tracks, disk |-> disk]
                  cur == c.tracks[a.track]
              IN  \E rd \in FileRead(c.disk[a.track], cur.free_start) :
                  LET al == TrackAlloc(cur, rd.packet)
                      prev == [writer.previous EXCEPT
                                  !.next = al.index, !.next_track = a.track]
                  IN  /\ tracks' = [c.tracks EXCEPT ![a.track] = al.mem]
                      /\ disk' = IF writer.previous.some
                                 THEN [c.disk EXCEPT ![prev.track] =
                                       TrackWrite(c.disk[prev.track], prev,
                                                  prev.index)]
                                 ELSE c.disk
                      /\ writer' = [writer EXCEPT
                            !.track = a.track,
                            !.write_tracks = writer.write_tracks \cup {a.track},
                            !.previous = [some |-> TRUE, track |-> a.track,
                                          index |-> al.index, id |-> writer.id,
                                          data |-> SubSeq(writer.buffer, 1, end),
                                          next |-> Undefined,
                                          next_track |-> Undefined],
                            !.id = writer.id + 1,
                            !.allocs = Append(writer.allocs,
                                              <<a.track, al.index>>)]
    /\ UNCHANGED <<reader, del>>
    /\ UNCHANGED <<ivars, tvars, fvars, cvars, svars>>

WriteStep == WritePass(MaxId)

\* The same loop, followed for more passes.
WriteLoop == WritePass(MaxPass)

\* write_end of every track of a set, the header of each from its object.
WriteEndAll(trk, dsk, ids) ==
    [t \in TrackIds |-> IF t \in ids THEN write_end(trk[t], dsk[t])
                        ELSE dsk[t]]

\* The history after a stream has closed.
ScenEnd(w, dsk) ==
    LET small == Len(w.input) >= 1 /\ Len(w.input) <= diff_size
    IN  IF w.scen.stage = "fresh" /\ small
        THEN [stage |-> "A", n |-> Len(w.input),
              len |-> [t \in TrackIds |-> dsk[t].len], allocs |-> w.allocs]
        ELSE IF w.scen.stage = "AD" /\ Len(w.input) = w.scen.n
        THEN [w.scen EXCEPT !.stage = "ADB"]
        ELSE NoScen

\* A Writer._final that runs write_end on every open track.
EndTracksOpen(trk, w) == {t \in TrackIds : trk[t].open}

\* The tracks Writer._final runs write_end on: those of write_tracks.
EndTracks(trk, w) == w.write_tracks

\* Writer._final: a staged previous chunk is written, then write_end runs on
\* every track of write_tracks; ended keeps the tracks it ran on.
End ==
    /\ writer.pc = "idle"
    /\ LET p == writer.previous
           d1 == IF p.some
                 THEN [disk EXCEPT ![p.track] =
                          TrackWrite(disk[p.track], p, p.index)]
                 ELSE disk
       IN  /\ disk' = WriteEndAll(tracks, d1, EndTracks(tracks, writer))
           /\ writer' = [writer EXCEPT
                 !.pc = "closed",
                 !.ended = EndTracks(tracks, writer),
                 !.scen = ScenEnd(writer, WriteEndAll(tracks, d1,
                                             EndTracks(tracks, writer)))]
    /\ UNCHANGED <<tracks, reader, del>>
    /\ UNCHANGED <<ivars, tvars, fvars, cvars, svars>>

\* ----------------------------------------------------------------- Reader

\* Volume.read: new Reader(tracks, track, index).
VolumeRead ==
    /\ ~Busy
    /\ \E s \in Starts :
        reader' = [NoReader EXCEPT !.pc = "open", !.track = s[1],
                                   !.index = s[2], !.start = s,
                                   !.after = (writer.pc = "closed")]
    /\ del' = NoDelete
    /\ UNCHANGED <<tracks, disk, writer>>
    /\ UNCHANGED <<ivars, fvars, cvars, svars>>

\* Reader._read: one chunk is read; index and track follow its next fields;
\* its data is pushed unless it has no next, which pushes null. A track that
\* is no Track object throws.
ReaderRead ==
    /\ reader.pc = "open"
    /\ reader.chunks < MaxOut
    /\ IF ~IsTrack(tracks, reader.track)
       THEN reader' = [reader EXCEPT !.pc = "error"]
       ELSE \E rd \in FileRead(disk[reader.track], reader.index) :
            LET value == TrackRead(rd.packet)
            IN  reader' = [reader EXCEPT
                    !.index = IF value.next # Undefined THEN value.next ELSE @,
                    !.track = IF value.next_track # Undefined
                              THEN value.next_track ELSE @,
                    !.out = IF value.next = Undefined THEN @
                            ELSE @ \o value.data,
                    !.chunks = IF value.next = Undefined THEN @ ELSE @ + 1,
                    !.pc = IF value.next = Undefined THEN "ended" ELSE "open"]
    /\ UNCHANGED <<tracks, disk, writer, del>>
    /\ UNCHANGED <<ivars, fvars, cvars, svars>>

\* ---------------------------------------------------------- Volume.remove

\* The history after Volume.remove was called on s: the object of the
\* closed stream is removed when s is its first chunk, or when it has none.
ScenRemove(w, s) ==
    IF w.scen.stage = "A" /\ (w.scen.allocs = <<>> \/ w.scen.allocs[1] = s)
    THEN [w.scen EXCEPT !.stage = "AD"]
    ELSE NoScen

\* Volume.remove is called.
VolumeRemove ==
    /\ ~Busy
    /\ \E s \in Starts :
        /\ del' = [pc |-> "run", track_id |-> s[1], offset |-> s[2], i |-> 0,
                   wf |-> WellFormedChain(disk, s),
                   chain |-> IF WellFormedChain(disk, s) THEN Chain(disk, s)
                             ELSE <<>>]
        /\ writer' = [writer EXCEPT !.scen = ScenRemove(writer, s)]
    /\ reader' = NoReader
    /\ UNCHANGED <<tracks, disk>>
    /\ UNCHANGED <<ivars, fvars, cvars, svars>>

\* One pass of Track.remove within Volume.remove. A break ends both loops; a
\* returned value moves Volume.remove to result.next_track and result.next,
\* where a track that is no Track object throws.
VolumeRemovePass ==
    /\ del.pc = "run"
    /\ IF ~IsTrack(tracks, del.track_id)
       THEN /\ del' = [NoDelete EXCEPT !.pc = "error", !.wf = del.wf,
                                        !.chain = del.chain]
            /\ UNCHANGED <<tracks, disk>>
       ELSE
       LET t == del.track_id
       IN  /\ tracks[t].size - chunk_size >= HeaderSize - MaxUnder * chunk_size
           /\ \E rd \in FileRead(disk[t], del.offset) :
              LET r == TrackRemovePass(t, tracks[t], disk[t], del.offset,
                                       del.i, rd)
              IN  /\ tracks' = [tracks EXCEPT ![t] = r.mem]
                  /\ disk' = [disk EXCEPT ![t] = r.file]
                  /\ del' = CASE r.ret = "break" ->
                                     [NoDelete EXCEPT !.pc = "done",
                                                      !.wf = del.wf,
                                                      !.chain = del.chain]
                              [] r.ret = "return" ->
                                     [del EXCEPT !.track_id = r.value.next_track,
                                                 !.offset = r.value.next,
                                                 !.i = 0]
                              [] OTHER ->
                                     [del EXCEPT !.offset = r.offset,
                                                 !.i = del.i + 1]
    /\ UNCHANGED <<writer, reader>>
    /\ UNCHANGED <<ivars, fvars, cvars, svars>>

\* ------------------------------------------------------------ the process

\* The process stops, whatever is in flight, and a new one starts on the
\* same directory: Volume.initialize.
VolumeRestart ==
    /\ tracks' = VolumeInitialize(disk)
    /\ writer' = NoWriter
    /\ reader' = NoReader
    /\ del' = NoDelete
    /\ UNCHANGED disk
    /\ UNCHANGED <<ivars, fvars, cvars, svars>>

\* ---------------------------------------------- the volume's client steps

NoCall == [op |-> "none", track |-> 0, index |-> 0, size |-> 0, head |-> 0,
           free |-> <<>>, stopped |-> FALSE, writes |-> 0]

OpenReader == VolumeRead /\ UNCHANGED tvars

Read == ReaderRead /\ UNCHANGED tvars

StartRemove == VolumeRemove /\ UNCHANGED tvars

RemovePass == VolumeRemovePass /\ UNCHANGED tvars

Restart == VolumeRestart /\ UNCHANGED tvars

\* ------------------------------------------- a client of the Track objects
\* The client calls the methods of the Track objects itself, as the streams
\* of the volume do: Track.alloc for an offset, Track.write at an offset it
\* was allocated, Track.write_end to complete its writes. cells holds what it
\* did last with each chunk: "allocated", "written", "complete" once
\* write_end followed the write, "kept" once a stop of the process followed
\* that, "deleted" once Volume.remove was called on a chain that holds it.

\* The call record with no call in it.
Settled ==
    [t_call EXCEPT !.op = "none", !.track = 0, !.index = 0, !.size = 0,
                   !.head = 0, !.free = <<>>]

\* The payload the client writes into the chunk of a cell.
CellData(cell) == Bytes(100 * cell[1] + cell[2], diff_size)

\* The next fields the client gives a chunk: none, those of the other chunk
\* of its track, or those of the first chunk of another track.
NextOf(cell) ==
    {<<Undefined, Undefined>>}
        \cup {c \in Starts \ {cell} : c[1] = cell[1] \/ c[2] = HeaderSize}

MarkAll(cs, S, from, to) ==
    [c \in Starts |-> IF c \in S /\ cs[c] \in from THEN to ELSE cs[c]]

\* The offsets of the free list of a track: those the walk from free_start
\* along the stored next visits, a next of 0 ending it, in at most fuel
\* steps.
RECURSIVE FreeFrom(_, _, _)
FreeFrom(file, offset, fuel) ==
    IF fuel = 0 \/ offset = 0 THEN <<>>
    ELSE <<offset>> \o FreeFrom(file, PacketAt(file, offset).next, fuel - 1)

FreeList(mem, file) ==
    FreeFrom(file, mem.free_start, Cardinality(ChunkOffsets) + 1)

\* Volume.create of the next track, as the callback of a write stream does.
TrackCreate ==
    /\ ~Busy
    /\ \E t \in TrackIds :
        /\ t > 0
        /\ tracks[t - 1].open
        /\ ~tracks[t].open
        /\ LET c == create(tracks, disk, t)
           IN  tracks' = c.tracks /\ disk' = c.disk
        /\ t_call' = [Settled EXCEPT !.op = "create", !.track = t]
    /\ reader' = NoReader
    /\ del' = NoDelete
    /\ UNCHANGED <<writer, cells>>
    /\ UNCHANGED <<ivars, fvars, cvars, svars>>

\* Track.alloc of an open track.
TrackAllocCall ==
    /\ ~Busy
    /\ \E t \in TrackIds :
        /\ tracks[t].open
        /\ \E rd \in FileRead(disk[t], tracks[t].free_start) :
            LET al == TrackAlloc(tracks[t], rd.packet)
            IN  /\ tracks' = [tracks EXCEPT ![t] = al.mem]
                /\ t_call' = [Settled EXCEPT !.op = "alloc", !.track = t,
                                             !.index = al.index,
                                             !.size = tracks[t].size,
                                             !.head = tracks[t].free_start]
                /\ cells' = IF <<t, al.index>> \in Starts
                            THEN MarkAll(cells, {<<t, al.index>>},
                                         {"none", "deleted"}, "allocated")
                            ELSE cells
    /\ reader' = NoReader
    /\ del' = NoDelete
    /\ UNCHANGED <<disk, writer>>
    /\ UNCHANGED <<ivars, fvars, cvars, svars>>

\* Track.write of a chunk at an offset the client was allocated.
TrackWriteCall ==
    /\ ~Busy
    /\ t_call.writes < MaxWrites
    /\ \E cell \in Starts :
        /\ tracks[cell[1]].open
        /\ cells[cell] = "allocated"
        /\ \E nx \in NextOf(cell) :
            LET chunk == [id |-> 0, data |-> CellData(cell),
                          next |-> nx[2], next_track |-> nx[1]]
            IN  disk' = [disk EXCEPT ![cell[1]] =
                            TrackWrite(disk[cell[1]], chunk, cell[2])]
        /\ t_call' = [Settled EXCEPT !.op = "write", !.track = cell[1],
                                     !.index = cell[2],
                                     !.size = tracks[cell[1]].size,
                                     !.writes = t_call.writes + 1]
        /\ cells' = [cells EXCEPT ![cell] = "written"]
    /\ reader' = NoReader
    /\ del' = NoDelete
    /\ UNCHANGED <<tracks, writer>>
    /\ UNCHANGED <<ivars, fvars, cvars, svars>>

\* Track.write_end of an open track: the writes on it are complete.
TrackWriteEnd ==
    /\ ~Busy
    /\ \E t \in TrackIds :
        /\ tracks[t].open
        /\ disk' = [disk EXCEPT ![t] = write_end(tracks[t], disk[t])]
        /\ t_call' = [Settled EXCEPT !.op = "write_end", !.track = t]
        /\ cells' = MarkAll(cells, {c \in Starts : c[1] = t}, {"written"},
                            "complete")
    /\ reader' = NoReader
    /\ del' = NoDelete
    /\ UNCHANGED <<tracks, writer>>
    /\ UNCHANGED <<ivars, fvars, cvars, svars>>

\* Volume.remove of an object the client has stored: the chunks of the chain from its head are no
\* longer those of a live object.
TrackClientRemove ==
    /\ VolumeRemove
    /\ <<del'.track_id, del'.offset>> \in Starts
    /\ cells[<<del'.track_id, del'.offset>>] \in {"complete", "kept"}
    /\ t_call' = [Settled EXCEPT
                     !.op = "remove", !.track = del'.track_id,
                     !.index = del'.offset,
                     !.size = tracks[del'.track_id].size,
                     !.head = tracks[del'.track_id].free_start,
                     !.free = FreeList(tracks[del'.track_id],
                                       disk[del'.track_id])]
    /\ LET chain == Chain(disk, <<del'.track_id, del'.offset>>)
       IN  cells' = MarkAll(cells, {chain[k] : k \in 1..Len(chain)},
                            {"written", "complete", "kept"}, "deleted")

\* Volume.remove is called once more on the head of an object it has
\* removed, whose first chunk has valid = 0.
TrackClientRemoveAgain ==
    /\ VolumeRemove
    /\ <<del'.track_id, del'.offset>> \in Starts
    /\ cells[<<del'.track_id, del'.offset>>] = "deleted"
    /\ InFile(disk, <<del'.track_id, del'.offset>>)
    /\ PacketAt(disk[del'.track_id], del'.offset).valid = 0
    /\ t_call' = [Settled EXCEPT
                     !.op = "remove_again", !.track = del'.track_id,
                     !.index = del'.offset,
                     !.size = tracks[del'.track_id].size,
                     !.head = tracks[del'.track_id].free_start,
                     !.free = FreeList(tracks[del'.track_id],
                                       disk[del'.track_id])]
    /\ UNCHANGED cells

TrackClientRemovePass == VolumeRemovePass /\ UNCHANGED tvars

\* Volume.read of an object the client has stored.
TrackClientRead ==
    /\ VolumeRead
    /\ cells[reader'.start] \in {"complete", "kept"}
    /\ t_call' = Settled
    /\ UNCHANGED cells

TrackClientPull == ReaderRead /\ UNCHANGED tvars

\* The process stops and a new one starts: offsets that were allocated and
\* not written are forgotten, complete chunks are "kept" across the stop.
TrackClientRestart ==
    /\ VolumeRestart
    /\ t_call' = [Settled EXCEPT !.stopped = TRUE]
    /\ cells' = MarkAll(MarkAll(cells, Starts, {"allocated"}, "none"),
                        Starts, {"complete"}, "kept")

\* A fresh directory after Volume.initialize: track 0 with its header.
InitVolume ==
    /\ disk = [t \in TrackIds |->
                  IF t = 0 THEN TrackInitialize(NoFile).file ELSE NoFile]
    /\ tracks = [t \in TrackIds |->
                    IF t = 0 THEN TrackInitialize(NoFile).mem ELSE NoTrack]
    /\ writer = [NoWriter EXCEPT !.scen.stage = "fresh"]
    /\ reader = NoReader
    /\ del = NoDelete
    /\ cells = [c \in Starts |-> "none"]
    /\ t_call = NoCall

\* ============================================================= File.write

\* The buffers handed to File.write: byte k of a buffer has value base + k.
Buffers == {[k \in 1..n |-> b + k] : b \in {0, 10}, n \in 0..MaxLen}

NoFileWrite == [pc |-> "none", chunk |-> <<>>, offset |-> 0, buf_offset |-> 0,
                passes |-> 0, file |-> <<>>]

\* fs.write(fd, data, offset, length, position) when the device takes size
\* bytes: bytes offset .. offset + size - 1 of data land at position; a file
\* that ends before position is filled with zero bytes up to it.
write(file, data, offset, size, position) ==
    LET end == IF position + size > Len(file) THEN position + size
               ELSE Len(file)
    IN  [k \in 1..end |->
            IF k > position /\ k <= position + size
            THEN data[offset + (k - position)]
            ELSE IF k <= Len(file) THEN file[k] ELSE 0]

PositionMutant(offset, buf_offset) == offset

\* alloc_all: const position = offset + buf_offset
Position(offset, buf_offset) == offset + buf_offset

\* File.write is called: alloc_all starts with buf_offset = 0.
FileWrite ==
    /\ fw.pc \in {"none", "done"}
    /\ \E chunk \in Buffers, offset \in 0..MaxOffset :
        fw' = [pc |-> "run", chunk |-> chunk, offset |-> offset,
               buf_offset |-> 0, passes |-> 0, file |-> fw.file]
    /\ UNCHANGED <<ivars, vvars, tvars, cvars, svars>>

\* One pass of the loop of alloc_all: the device takes size of the length
\* bytes it is handed, at least 1 of them when there are any.
alloc_all ==
    /\ fw.pc = "run"
    /\ LET count_size == Len(fw.chunk)
           position == Position(fw.offset, fw.buf_offset)
           length == count_size - fw.buf_offset
       IN  \E size \in (IF length = 0 THEN {0} ELSE 1..length) :
            fw' = [fw EXCEPT
                !.file = write(fw.file, fw.chunk, fw.buf_offset, size,
                               position),
                !.passes = fw.passes + 1,
                !.buf_offset = IF fw.buf_offset + size >= count_size
                               THEN fw.buf_offset
                               ELSE fw.buf_offset + size,
                !.pc = IF fw.buf_offset + size >= count_size THEN "done"
                       ELSE "run"]
    /\ UNCHANGED <<ivars, vvars, tvars, cvars, svars>>

InitFile == fw = NoFileWrite

\* ------------------------------------------------------- the chunk codec

NoChunk == [id |-> 0, data |-> <<>>, next |-> Undefined,
            next_track |-> Undefined]

NoResult == [id |-> 0, exist |-> FALSE, next |-> Undefined,
             next_track |-> Undefined, data |-> <<>>]

NoCodec == [pc |-> "none", id |-> <<0, 0>>, chunk |-> NoChunk,
            packet |-> ZeroPacket, result |-> NoResult]

\* The ids handed to Chunk.encoder, each as its high and its low 16 bits:
\* 0, 1, 2^31 - 1, 2^31 and 2^32 - 1.
WideIds == {<<0, 0>>, <<0, 1>>, <<32767, 65535>>, <<32768, 0>>,
            <<65535, 65535>>}

\* Buffer.writeInt32BE takes a value from -2^31 to 2^31 - 1 and throws a
\* RangeError on any other; of the ids here the ones with the top bit set.
writeInt32BE_fits(id) == id[1] < 32768

\* Buffer.writeInt16BE takes a value from -2^15 to 2^15 - 1.
writeInt16BE_fits(value) == value >= -32768 /\ value <= 32767

\* The chunks handed to Chunk.encoder, but for their id: a payload of every
\* length from 0 to diff_size, without a successor and with one on tracks
\* 0, 1, 2^15 - 1, 2^15 and 2^16 - 1.
Chunks ==
    {[id |-> 0, data |-> Bytes(0, n), next |-> nx[2], next_track |-> nx[1]] :
        n \in 0..diff_size,
        nx \in {<<Undefined, Undefined>>, <<0, chunk_size + HeaderSize>>,
                <<1, HeaderSize>>, <<32767, HeaderSize>>,
                <<32768, HeaderSize>>, <<65535, HeaderSize>>}}

\* The records handed to Chunk.decoder: every payload length field from 0
\* to diff_size over bytes 17.. that hold the values 1, 2, 3, ..., the
\* next_track field holding 0 or 40000.
Records ==
    {[id |-> 0, valid |-> v, size |-> n, next |-> nx[2], next_track |-> nx[1],
      data |-> Bytes(0, diff_size)] :
        v \in 0..1, n \in 0..diff_size,
        nx \in {<<0, 0>>, <<0, HeaderSize>>, <<40000, HeaderSize>>}}

\* Chunk.encoder throws: one of its writes is handed a value out of range.
EncoderThrows(id, chunk) ==
    \/ ~writeInt32BE_fits(id)
    \/ ~writeInt16BE_fits(IF chunk.next_track = Undefined THEN 0
                          ELSE chunk.next_track)

\* Chunk.encoder is called.
Encode ==
    /\ \E id \in WideIds, chunk \in Chunks :
        codec' = IF EncoderThrows(id, chunk)
                 THEN [NoCodec EXCEPT !.pc = "thrown", !.id = id,
                                      !.chunk = chunk]
                 ELSE LET c == [chunk EXCEPT !.id = 65536 * id[1] + id[2]]
                      IN  [NoCodec EXCEPT !.pc = "encoded", !.id = id,
                                          !.chunk = c, !.packet = encoder(c)]
    /\ UNCHANGED <<ivars, vvars, tvars, fvars, svars>>

\* Chunk.decoder is called on the packet Chunk.encoder returned.
Decode ==
    /\ codec.pc = "encoded"
    /\ codec' = [codec EXCEPT !.pc = "decoded",
                              !.result = decoder(codec.packet)]
    /\ UNCHANGED <<ivars, vvars, tvars, fvars, svars>>

\* Chunk.decoder is called on a record read from a track file.
DecodeRecord ==
    /\ \E packet \in Records :
        codec' = [NoCodec EXCEPT !.pc = "decoded", !.packet = packet,
                                 !.result = decoder(packet)]
    /\ UNCHANGED <<ivars, vvars, tvars, fvars, svars>>

InitCodec == codec = NoCodec

NextCodec ==
    \/ Encode
    \/ Decode
    \/ DecodeRecord


\* ------------------------------------ Index.initialize on a file found

\* The length in bytes of a trailing record that was cut short.
ShortSize == 20

\* The record number k of a found file, for key: a record Encoder wrote,
\* with heads that tell the records apart.
FoundRecord(key, k) ==
    Encoder([key |-> key, start_chunk |-> <<0, HeaderSize + chunk_size * k>>,
             start_matedata |-> <<1, HeaderSize + chunk_size * k>>], 0)

\* What can stand in slot k of a found file: a record for one of two keys,
\* or 54 bytes that do not open with the magic.
Slots(k) ==
    {FoundRecord(hash("a"), k), FoundRecord(hash("b"), k),
     [FoundRecord(hash("a"), k) EXCEPT !.magic = 0]}

\* The index files found in the directory: up to MaxRecords slots of 54
\* bytes, possibly followed by the first ShortSize bytes of a record.
WholeFiles ==
    UNION {{f \in [1..n -> UNION {Slots(k) : k \in 0..(MaxRecords - 1)}] :
               \A k \in 1..n : f[k] \in Slots(k - 1)} : n \in 0..MaxRecords}

FoundFiles ==
    WholeFiles \cup
    {Append(f, [FoundRecord(hash("a"), Len(f)) EXCEPT !.len = ShortSize]) :
        f \in {g \in WholeFiles : Len(g) < MaxRecords}}

\* (await this.file.stat()).size
RECURSIVE StatSize(_)
StatSize(file) ==
    IF file = <<>> THEN 0 ELSE Head(file).len + StatSize(Tail(file))

\* Index.parse from record number i up to its next read: seen offsets are
\* passed without reading.
RECURSIVE ParseNext(_, _)
ParseNext(offsets, i) ==
    IF (i * RecordSize) \in offsets THEN ParseNext(offsets, i + 1) ELSE i

\* A parse that stops at the first record Decoder rejects.
ParseStepAborting(file, i, cache, offsets) ==
    IF i >= Len(file) THEN [done |-> TRUE, cache |-> cache, offsets |-> offsets]
    ELSE LET value == Decoder(RecordAt(file, i))
         IN  IF ~value.ok
             THEN [done |-> TRUE, cache |-> cache, offsets |-> offsets]
             ELSE [done |-> FALSE,
                   cache |-> CacheSet(cache, value.key,
                                 CacheEntry(i * RecordSize, value.start_chunk,
                                            value.start_matedata)),
                   offsets |-> offsets \cup {i * RecordSize}]

\* One pass of Index.parse with load_all's handle, once the read of record
\* number i came back: a read of 0 bytes ends the loop, a record Decoder
\* rejects is passed over, any other is cached and its offset marked seen.
ParseStep(file, i, cache, offsets) ==
    IF i >= Len(file) THEN [done |-> TRUE, cache |-> cache, offsets |-> offsets]
    ELSE LET value == Decoder(RecordAt(file, i))
         IN  IF ~value.ok
             THEN [done |-> FALSE, cache |-> cache, offsets |-> offsets]
             ELSE [done |-> FALSE,
                   cache |-> CacheSet(cache, value.key,
                                 CacheEntry(i * RecordSize, value.start_chunk,
                                            value.start_matedata)),
                   offsets |-> offsets \cup {i * RecordSize}]

NoScan == [pc |-> "none", i |-> 0]

\* Index.initialize up to the first read of load_all.
ScanOpen ==
    /\ scan.pc = "none"
    /\ i_file_size' = StatSize(i_file)
    /\ scan' = [pc |-> "load", i |-> ParseNext(i_offsets, 0)]
    /\ UNCHANGED <<i_file, i_cache, i_offsets, q_queue, q_worker, q_loops,
                   i_results, i_hist, i_get, i_loaded, q_waited>>
    /\ UNCHANGED <<vvars, tvars, fvars, cvars>>

\* The read load_all awaits comes back, and the loop runs to its next read.
ScanLoad ==
    /\ scan.pc = "load"
    /\ LET r == ParseStep(i_file, scan.i, i_cache, i_offsets)
       IN  /\ i_cache' = r.cache
           /\ i_offsets' = r.offsets
           /\ scan' = IF r.done THEN [scan EXCEPT !.pc = "done"]
                      ELSE [scan EXCEPT !.i = ParseNext(r.offsets, scan.i + 1)]
    /\ UNCHANGED <<i_file, i_file_size, q_queue, q_worker, q_loops,
                   i_results, i_hist, i_get, i_loaded, q_waited>>
    /\ UNCHANGED <<vvars, tvars, fvars, cvars>>

\* Index.get is called on the opened index, while load_all runs or after it.
ScanGet ==
    /\ scan.pc \in {"load", "done"}
    /\ \E n \in Names : get(n)
    /\ UNCHANGED <<vvars, tvars, fvars, cvars, svars>>

InitScan == scan = NoScan

NextScan ==
    \/ ScanOpen
    \/ ScanLoad
    \/ ScanGet

\* ------------------------------------------------------ index specification

NoHist == [state |-> "none", start_chunk |-> <<0, 0>>,
           start_matedata |-> <<0, 0>>]

\* A fresh directory: an empty index file, initialised.
InitIndex ==
    /\ i_file = <<>>
    /\ i_cache = EmptyCache
    /\ i_offsets = {}
    /\ i_file_size = 0
    /\ q_queue = <<>>
    /\ q_worker = FALSE
    /\ q_loops = <<>>
    /\ i_results = <<>>
    /\ i_hist = [n \in Names |-> NoHist]
    /\ i_get = [name |-> "", hist |-> NoHist, loaded |-> TRUE,
                result |-> NullResult]
    /\ i_loaded = TRUE
    /\ q_waited = FALSE

Call ==
    /\ \E n \in Names, c \in ChunkHeads(Len(i_results) + 1), m \in MetaHeads :
        call(n, c, m)
    /\ UNCHANGED <<vvars, tvars, fvars, cvars, svars>>

IoAppend ==
    /\ \E l \in 1..Len(q_loops) : \E r \in 1..Len(q_loops[l]) : append(l, r)
    /\ UNCHANGED <<vvars, tvars, fvars, cvars, svars>>

SetResume ==
    /\ \E l \in 1..Len(q_loops) : \E r \in 1..Len(q_loops[l]) :
        set_index_resume(l, r)
    /\ UNCHANGED <<vvars, tvars, fvars, cvars, svars>>

IoAppendFail ==
    /\ \E l \in 1..Len(q_loops) : \E r \in 1..Len(q_loops[l]) :
        append_fails(l, r)
    /\ UNCHANGED <<vvars, tvars, fvars, cvars, svars>>

PollNext ==
    /\ \E l \in 1..Len(q_loops) : poll_next(l)
    /\ UNCHANGED <<vvars, tvars, fvars, cvars, svars>>

Get ==
    /\ \E n \in Names : get(n)
    /\ UNCHANGED <<vvars, tvars, fvars, cvars, svars>>

Remove ==
    /\ \E n \in Names : remove(n)
    /\ UNCHANGED <<vvars, tvars, fvars, cvars, svars>>

Reopen ==
    /\ initialize
    /\ UNCHANGED <<vvars, tvars, fvars, cvars, svars>>

NextIndex ==
    \/ Call
    \/ IoAppend
    \/ SetResume
    \/ PollNext
    \/ Get
    \/ Remove
    \/ Reopen

\* A fresh directory, initialised.
Init == InitIndex /\ InitVolume /\ InitFile /\ InitCodec /\ InitScan

SpecIndex == Init /\ [][NextIndex]_vars

\* The queue of Index.set calls, over a file whose appends can fail.
NextQueue ==
    \/ Call
    \/ IoAppend
    \/ IoAppendFail
    \/ SetResume
    \/ PollNext

SpecQueue == Init /\ [][NextQueue]_vars

\* Every fs.appendFile calls back, and every continuation that is ready runs.
FairQueue ==
    /\ WF_vars(IoAppend \/ IoAppendFail)
    /\ WF_vars(SetResume)
    /\ WF_vars(PollNext)

SpecQueueFair == SpecQueue /\ FairQueue

Next ==
    \/ OpenWriter
    \/ Push
    \/ WriteStep
    \/ End
    \/ OpenReader
    \/ Read
    \/ StartRemove
    \/ RemovePass
    \/ Restart

Spec == Init /\ [][Next]_vars

\* The volume with write streams only.
NextStream ==
    \/ OpenWriter
    \/ Push
    \/ WriteLoop
    \/ End
    \/ Restart

SpecStream == Init /\ [][NextStream]_vars

\* The tracks under a client that calls their methods itself.
NextTrack ==
    \/ TrackCreate
    \/ TrackAllocCall
    \/ TrackWriteCall
    \/ TrackWriteEnd
    \/ TrackClientRemove
    \/ TrackClientRemoveAgain
    \/ TrackClientRemovePass
    \/ TrackClientRead
    \/ TrackClientPull
    \/ TrackClientRestart

SpecTrack == Init /\ [][NextTrack]_vars

NextFile ==
    \/ FileWrite
    \/ alloc_all

SpecFile == Init /\ [][NextFile]_vars

SpecCodec == Init /\ [][NextCodec]_vars

\* A new Index on an index file found in the directory.
InitFound ==
    /\ i_file \in FoundFiles
    /\ i_cache = EmptyCache
    /\ i_offsets = {}
    /\ i_file_size = 0
    /\ q_queue = <<>>
    /\ q_worker = FALSE
    /\ q_loops = <<>>
    /\ i_results = <<>>
    /\ i_hist = [n \in Names |-> NoHist]
    /\ i_get = [name |-> "", hist |-> NoHist, loaded |-> FALSE,
                result |-> NullResult]
    /\ i_loaded = FALSE
    /\ q_waited = FALSE
    /\ InitVolume /\ InitFile /\ InitCodec /\ InitScan

SpecScan == InitFound /\ [][NextScan]_vars

\* ------------------------------------------------------- claims: the index

\* The set_index runs that are between their start and their return.
Executing(loops) ==
    {p \in {<<l, r>> : l \in 1..Len(loops), r \in 1..MaxCalls} :
        /\ p[2] <= Len(loops[p[1]])
        /\ loops[p[1]][p[2]].pc # "returned"}

\* The tickets of the runs in the loops.
Running(loops) ==
    {loops[l][r].task.ticket : <<l, r>> \in
        {p \in {<<l, r>> : l \in 1..Len(loops), r \in 1..MaxCalls} :
            p[2] <= Len(loops[p[1]])}}

\* The numbers of the records of the file that decode to the given key.
RecordsOf(file, key) ==
    {i \in 1..Len(file) : Decoder(file[i]).ok /\ Decoder(file[i]).key = key}

Max(S) == CHOOSE x \in S : \A y \in S : y <= x

\* C4: once a name was stored with Index.set and then deleted with
\* Index.remove(name), Index.get(name) returns null.
C4_IdempotentDelete ==
    i_get.hist.state = "removed" => ~i_get.result.found

\* C5: a set_index run that finds its key in the cache resolves false,
\* appends no record, leaves file_size unchanged and does not change what
\* get returns for the name: the heads given to the set that stored it.
C5_DuplicateSetRejected ==
    [][\A k \in 1..Len(i_results') :
          LET name == i_results'[k].task.name
          IN  (/\ k \in Running(q_loops') /\ k \notin Running(q_loops)
               /\ CacheHas(i_cache, hash(name)))
              => /\ i_results'[k].state = "false"
                 /\ Executing(q_loops') = Executing(q_loops)
                 /\ i_file' = i_file
                 /\ i_file_size' = i_file_size
                 /\ GetResult(name, i_file', i_cache', i_offsets')
                      = GetResult(name, i_file, i_cache, i_offsets)
                 /\ i_hist[name].state = "set" =>
                      GetResult(name, i_file', i_cache', i_offsets')
                       = Found(i_hist[name].start_chunk,
                               i_hist[name].start_matedata)]_vars

\* C5's case: a second set of a stored name was rejected and the name was
\* read afterwards.
C5_Witness ==
    \E k \in 1..Len(i_results) :
        /\ i_results[k].state = "false"
        /\ i_get.name = i_results[k].task.name
        /\ i_get.hist.state = "set"
        /\ i_get.result.found

\* C6: a get of a name whose set completed with true, with no delete of that
\* name and no re-initialisation since, returns the heads given to that set.
C6_GetAfterSet ==
    i_get.hist.state = "set" =>
        i_get.result = Found(i_get.hist.start_chunk, i_get.hist.start_matedata)

\* C7: the records of the index file are in the order in which their set
\* calls were submitted.
C7_FileOrder ==
    \A i, j \in 1..Len(i_file) :
        i < j => i_file[i].ticket < i_file[j].ticket

\* C7's case: two calls waited in the queue together behind a running one,
\* and all three appended their records.
C7_Witness == q_waited /\ Len(i_file) = 3

\* C8: at most one set_index run is executing at any moment, and at most
\* one poll loop is working.
C8_MutualExclusion ==
    /\ Cardinality(Executing(q_loops)) <= 1
    /\ Len(q_loops) <= 1

\* C8's case: a set_index run is at its await while two more calls wait.
C8_Witness ==
    /\ Cardinality(Executing(q_loops)) = 1
    /\ Len(q_queue) = 2

\* C9: after a completed set and a re-initialisation from the file, get
\* returns the start_chunk and the start_matedata given to the set, each in
\* its own field.
C9_ReopenRoundTrip ==
    i_get.hist.state = "stored" =>
        i_get.result = Found(i_get.hist.start_chunk, i_get.hist.start_matedata)

\* C10: right after initialisation, for a key with several well-formed
\* records in the file, the cache holds and get returns the heads stored in
\* the record at the greatest file offset.
C10_LastWriterWins ==
    i_loaded =>
        \A n \in Names :
            LET recs == RecordsOf(i_file, hash(n))
                last == i_file[Max(recs)]
            IN  Cardinality(recs) >= 2 =>
                  /\ CacheHas(i_cache, hash(n))
                  /\ i_cache[hash(n)].start_chunk = last.f44
                  /\ i_cache[hash(n)].start_matedata = last.f34
                  /\ GetResult(n, i_file, i_cache, i_offsets)
                       = Found(last.f44, last.f34)

\* ------------------------------------------------------ claims: the volume

\* C1: a byte string pushed through a write stream that is then closed is
\* what a read stream, opened afterwards at the chain's first (track,
\* offset), has pushed when it ends. A stream that was allocated no chunk
\* has no first chunk; the read stream is then opened at any start.
C1_RoundTrip ==
    ( /\ writer.pc = "closed"
      /\ reader.after
      /\ reader.pc = "ended"
      /\ (writer.allocs # <<>> => reader.start = writer.allocs[1]) )
    => reader.out = writer.input

\* C2: the (track, offset) pairs one write stream obtained from its
\* successive Track.alloc calls are pairwise distinct.
C2_NoLiveOverlap ==
    \A j, k \in 1..Len(writer.allocs) :
        j # k => writer.allocs[j] # writer.allocs[k]

\* The offsets of a track file whose packet has valid = 0.
Invalid(file) ==
    {o \in ChunkOffsets : o + chunk_size <= file.len
                           /\ PacketAt(file, o).valid = 0}

\* The walk from offset o along next, in at most fuel steps: the offsets
\* visited, and whether a next of 0 ended it.
RECURSIVE Walk(_, _, _)
Walk(file, o, fuel) ==
    IF fuel = 0 THEN [seen |-> <<>>, ended |-> FALSE]
    ELSE IF PacketAt(file, o).next = 0 THEN [seen |-> <<o>>, ended |-> TRUE]
    ELSE LET rest == Walk(file, PacketAt(file, o).next, fuel - 1)
         IN  [seen |-> <<o>> \o rest.seen, ended |-> rest.ended]

\* The free list of a track is well formed: the walk from free_start ends
\* at free_end and visits exactly the chunks with valid = 0.
WellFormed(mem, file) ==
    IF mem.free_start = 0
    THEN mem.free_end = 0 /\ Invalid(file) = {}
    ELSE LET w == Walk(file, mem.free_start, Cardinality(ChunkOffsets) + 1)
         IN  /\ w.ended
             /\ w.seen[Len(w.seen)] = mem.free_end
             /\ {w.seen[k] : k \in 1..Len(w.seen)} = Invalid(file)

\* C3: once a Volume.remove has settled and no write stream is under way,
\* the free list of every track is well formed.
C3_FreeListWellFormed ==
    (del.pc \in {"done", "error"} /\ writer.pc \in {"none", "closed"})
    => \A t \in TrackIds : tracks[t].open => WellFormed(tracks[t], disk[t])

\* Slice k of a stream's input: its bytes (k - 1) * D + 1 .. k * D.
InputSlice(input, k) ==
    SubSeq(input, (k - 1) * diff_size + 1,
           IF k * diff_size > Len(input) THEN Len(input) ELSE k * diff_size)

\* C12: after a write stream has closed, and before anything is removed, the
\* chain from the first chunk it was allocated is well formed (valid = 1
\* throughout, ending at a next of 0), its chunks have ids 0, 1, 2, ... and
\* their payloads are the consecutive slices of the input.
C12_LiveChain ==
    (writer.pc = "closed" /\ writer.input # <<>> /\ del.pc = "none")
    => /\ writer.allocs # <<>>
       /\ WellFormedChain(disk, writer.allocs[1])
       /\ LET c == Chain(disk, writer.allocs[1])
          IN  \A k \in 1..Len(c) :
                LET packet == PacketAt(disk[c[k][1]], c[k][2])
                IN  /\ packet.id = k - 1
                    /\ packet.data = Pad(InputSlice(writer.input, k))

\* C14: on a fresh volume, after a stream of 1 to D bytes has closed, its
\* object was removed and a second stream of as many bytes has closed, the
\* second stream's chunk is at the offset of the first stream's chunk and
\* the track file is as long as it was after the first stream.
C14_Reuse ==
    writer.scen.stage = "ADB"
    => /\ writer.allocs # <<>>
       /\ writer.scen.allocs # <<>>
       /\ writer.allocs[1] = writer.scen.allocs[1]
       /\ disk[writer.allocs[1][1]].len = writer.scen.len[writer.allocs[1][1]]

\* The chunks an input of n bytes needs, and the chunks a track holds.
ChunksOf(n) == (n + diff_size - 1) \div diff_size

ChunksPerTrack == track_size \div chunk_size

\* C15: a stream whose input needs more chunks than a track holds, and that
\* was allocated more chunks than a track holds, was allocated chunks on at
\* least two tracks.
C15_TrackBoundary ==
    ( /\ ChunksOf(Len(writer.input)) > ChunksPerTrack
      /\ Len(writer.allocs) > ChunksPerTrack )
    => \E j, k \in 1..Len(writer.allocs) :
          writer.allocs[j][1] # writer.allocs[k][1]

\* C18: while a push is in the loop of Writer._write, the chunks allocated
\* for it are at most the chunks its buffer needs: every pass takes the next
\* D bytes of the buffer.
C18_PushTerminates ==
    writer.pc = "loop" =>
        Len(writer.allocs) <= ChunksOf(Len(writer.buffer))

\* ------------------------------------------------------ claims: File.write

\* C16: when File.write has returned, byte i of its buffer is at file
\* position offset + i, for every i, whatever partial sizes the device took.
C16_FileWriteCompletes ==
    fw.pc = "done" =>
        /\ Len(fw.file) >= fw.offset + Len(fw.chunk)
        /\ \A i \in 1..Len(fw.chunk) : fw.file[fw.offset + i] = fw.chunk[i]

\* A write over bytes of an earlier write that the device took in more than
\* one part.
C16_Witness ==
    /\ fw.pc = "done"
    /\ fw.passes >= 2
    /\ Len(fw.chunk) = MaxLen
    /\ fw.offset > 0
    /\ fw.chunk[1] = 11
    /\ fw.file[1] = 1


\* --------------------------------------------- claims on the Track client

\* The payloads Chunk.decoder gives for the chunks of a chain, in chain
\* order, one after the other.
RECURSIVE Payloads(_, _)
Payloads(dsk, chain) ==
    IF chain = <<>> THEN <<>>
    ELSE decoder(PacketAt(dsk[chain[1][1]], chain[1][2])).data
             \o Payloads(dsk, Tail(chain))

\* C11: a read stream opened at the head of a well-formed chain has, when it
\* signals end-of-stream, emitted the payload of every chunk of the chain,
\* the terminal chunk (stored next 0) included, once each and in chain
\* order; a chain of one chunk yields that chunk's payload.
C11_ReaderEmitsAll ==
    (reader.pc = "ended" /\ WellFormedChain(disk, reader.start))
    => /\ reader.chunks = Len(Chain(disk, reader.start))
       /\ reader.out = Payloads(disk, Chain(disk, reader.start))

\* C13: Volume.remove called on the head of a well-formed chain settles
\* without an error, and then every chunk of that chain has valid = 0 in
\* its track file; chains of two chunks on track 0 and chains that cross
\* tracks are among them.
C13_RemoveInvalidatesChain ==
    (del.pc \in {"done", "error"} /\ del.wf)
    => /\ del.pc = "done"
       /\ \A k \in 1..Len(del.chain) :
              PacketAt(disk[del.chain[k][1]], del.chain[k][2]).valid = 0

\* C17: a chunk that was complete when the process stopped, and was not
\* deleted since, is intact after Volume.initialize (valid = 1, the payload
\* that was written), and no Track.alloc call returns its offset.
C17_LiveChainsSurvive ==
    \A c \in Starts :
        cells[c] = "kept"
        => /\ InFile(disk, c)
           /\ PacketAt(disk[c[1]], c[2]).valid = 1
           /\ PacketAt(disk[c[1]], c[2]).data = Pad(CellData(c))
           /\ ~(t_call.op = "alloc" /\ t_call.track = c[1]
                                     /\ t_call.index = c[2])

\* C19: right after Track.write(chunk, offset), the size of the track is
\* its size before the call plus chunk_size when offset was equal to that
\* size, and its size before the call otherwise.
C19_WriteGrowsSize ==
    t_call.op = "write"
    => tracks[t_call.track].size =
           IF t_call.index = t_call.size THEN t_call.size + chunk_size
           ELSE t_call.size

\* C20: a Track.alloc call leaves the size of its track and every track
\* file as they were; when free_start was 0 it returns that size and leaves
\* free_start and free_end as they were.
C20_AllocFrame ==
    [][ t_call'.op = "alloc"
        => /\ disk' = disk
           /\ tracks'[t_call'.track].size = tracks[t_call'.track].size
           /\ tracks[t_call'.track].free_start = 0
              => /\ t_call'.index = tracks[t_call'.track].size
                 /\ tracks'[t_call'.track] = tracks[t_call'.track] ]_vars

\* Track.alloc has returned the size of a track whose free list was empty
\* and whose file holds a chunk.
C20_Witness ==
    /\ t_call.op = "alloc"
    /\ t_call.head = 0
    /\ t_call.index = tracks[t_call.track].size
    /\ t_call.index > HeaderSize
    /\ disk[t_call.track].len > HeaderSize

\* C21: a Track.alloc call on a track whose free_start is not 0 and whose
\* file holds the chunk at free_start returns that free_start, sets
\* free_start to the next stored in that chunk, and sets free_end to 0 when
\* the new free_start is 0 and leaves it as it was otherwise.
C21_AllocPops ==
    [][ ( /\ t_call'.op = "alloc"
          /\ tracks[t_call'.track].free_start # 0
          /\ InFile(disk, <<t_call'.track, tracks[t_call'.track].free_start>>) )
        => LET mem == tracks[t_call'.track]
               new == tracks'[t_call'.track]
               stored == PacketAt(disk[t_call'.track], mem.free_start).next
           IN  /\ t_call'.index = mem.free_start
               /\ new.free_start = stored
               /\ new.free_end = IF stored = 0 THEN 0 ELSE mem.free_end ]_vars

\* Track.alloc has popped the last chunk of a free list whose free_end was
\* set: free_start and free_end are both 0 again.
C21_Witness ==
    /\ t_call.op = "alloc"
    /\ t_call.head # 0
    /\ t_call.index = t_call.head
    /\ InFile(disk, <<t_call.track, t_call.head>>)
    /\ tracks[t_call.track].free_start = 0
    /\ tracks[t_call.track].free_end = 0
    /\ disk[t_call.track].head = t_call.head

\* C22: when Volume.remove of a well-formed chain has settled without an
\* error, Track.remove has reached the chain's last chunk (stored next 0):
\* free_end of that chunk's track is the chunk's offset, and the header of
\* the track file holds the track's free_start in its first field and its
\* free_end in its second.
C22_HeaderAfterRemove ==
    (del.pc = "done" /\ del.wf)
    => LET last == del.chain[Len(del.chain)]
       IN  /\ tracks[last[1]].free_end = last[2]
           /\ disk[last[1]].head = tracks[last[1]].free_start
           /\ disk[last[1]].tail = tracks[last[1]].free_end

\* C23: when Volume.remove has freed a well-formed chain that lies on one
\* track whose free list was not empty, the free list of that track is the
\* free list it had before followed by the chunks of the chain in chain
\* order, which is the order in which Track.alloc pops them.
C23_ReuseOrder ==
    ( /\ del.pc = "done" /\ del.wf
      /\ t_call.op = "remove" /\ t_call.free # <<>>
      /\ \A k \in 1..Len(del.chain) : del.chain[k][1] = t_call.track )
    => FreeList(tracks[t_call.track], disk[t_call.track])
           = t_call.free \o [k \in 1..Len(del.chain) |-> del.chain[k][2]]

\* C24: while Volume.remove frees a well-formed chain, the chunk to free
\* next is a chunk of the chain, and Track.remove has been entered anew for
\* it (pass 0 of its loop) exactly when it is the head or the chunk before
\* it lies on another track: Track.remove of track t, t = 0 included, goes
\* on in its own loop when the freed chunk's next_track is t and hands off
\* only when it is not.
C24_HandOffOnlyAcrossTracks ==
    (del.pc = "run" /\ del.wf)
    => \E k \in 1..Len(del.chain) :
           /\ del.chain[k] = <<del.track_id, del.offset>>
           /\ (del.i = 0) <=> (k = 1 \/ del.chain[k - 1][1] # del.chain[k][1])

\* C25: when Volume.remove, called a second time on the head of an object
\* whose first chunk already has valid = 0, has settled, it has settled
\* without an error and the free list of the head's track is well formed:
\* the walk from free_start visits no offset twice and ends, at free_end.
C25_DoubleRemoveHarmless ==
    (t_call.op = "remove_again" /\ del.pc \in {"done", "error"})
    => /\ del.pc = "done"
       /\ LET mem == tracks[t_call.track]
              w == Walk(disk[t_call.track], mem.free_start,
                        Cardinality(ChunkOffsets) + 1)
          IN  /\ mem.free_start # 0
              /\ w.ended
              /\ \A j, k \in 1..Len(w.seen) : j # k => w.seen[j] # w.seen[k]
              /\ w.seen[Len(w.seen)] = mem.free_end

\* C26: right after Track.write_end the header of the track file holds the
\* track's free_start in its first field and its free_end in its second,
\* and Track.initialize on that file gives the same free_start and
\* free_end.
C26_HeaderRoundTrip ==
    t_call.op = "write_end"
    => LET mem == tracks[t_call.track]
           again == TrackInitialize(disk[t_call.track]).mem
       IN  /\ disk[t_call.track].head = mem.free_start
           /\ disk[t_call.track].tail = mem.free_end
           /\ again.free_start = mem.free_start
           /\ again.free_end = mem.free_end

\* Track.write_end has written the header of a track whose free list holds
\* two chunks.
C26_Witness ==
    /\ t_call.op = "write_end"
    /\ tracks[t_call.track].free_start # 0
    /\ tracks[t_call.track].free_end # 0
    /\ tracks[t_call.track].free_start # tracks[t_call.track].free_end
    /\ disk[t_call.track].tail = tracks[t_call.track].free_end

C28_EnsureWritableTrack ==
    [][ Len(writer'.allocs) > Len(writer.allocs)
        => LET t == writer'.track
           IN  /\ t \in TrackIds
               /\ tracks'[t].open
               /\ tracks'[t].size + chunk_size <= track_size
               /\ t >= writer.track
               /\ \A u \in writer.track..(t - 1) :
                      tracks[u].open
                          /\ tracks[u].size + chunk_size > track_size
               /\ tracks[t].open
                      => tracks[t].size + chunk_size <= track_size ]_vars

\* A stream has advanced past the full track 0 and was allocated a chunk on
\* track 1.
C28_Witness ==
    /\ writer.pc = "loop"
    /\ writer.allocs # <<>>
    /\ writer.track = 1
    /\ writer.allocs[Len(writer.allocs)][1] = 1
    /\ tracks[0].size + chunk_size > track_size
    /\ tracks[1].size + chunk_size <= track_size

\* --------------------------------------------- claims on the chunk codec

\* C29: the packet Chunk.encoder returns for a payload of 0 to diff_size
\* bytes holds 0 in its payload length field when the payload has
\* diff_size bytes, and the length of the payload otherwise.
C29_EncoderPayloadLen ==
    codec.pc = "encoded"
    => codec.packet.size = IF Len(codec.chunk.data) = diff_size THEN 0
                           ELSE Len(codec.chunk.data)

\* C30: the data Chunk.decoder returns for a record is the bytes of the
\* record from byte 17 on, as many as its payload length field says when
\* that is not 0, and diff_size of them when it is 0.
C30_DecoderPayloadSlice ==
    codec.pc = "decoded"
    => codec.result.data
           = SubSeq(codec.packet.data, 1,
                    IF codec.packet.size = 0 THEN diff_size
                    ELSE codec.packet.size)

\* C34: a name that was set and then removed stays removed when the index
\* is initialised again from its file: a get right after that returns
\* null.
C34_DeleteSurvivesReopen ==
    (i_get.hist.state = "removed" /\ i_get.loaded) => ~i_get.result.found

\* C35: when the append of a set fails, the index is as it was before the
\* set ran: the name is not in the cache, the offset the record would have
\* had is not marked as seen, file_size is unchanged, and get of the name
\* finds nothing.
C35_FailedAppendLeavesNoTrace ==
    [][ \A k \in 1..Len(i_results) :
          ( i_results[k].state = "pending"
            /\ i_results'[k].state = "rejected" )
          => LET name == i_results[k].task.name
             IN  /\ ~CacheHas(i_cache', hash(name))
                 /\ i_file_size \notin i_offsets'
                 /\ i_file_size' = i_file_size
                 /\ GetResult(name, i_file', i_cache', i_offsets')
                      = NullResult ]_vars

\* C38: a task is never left in the queue with no poll loop running, and
\* every Index.set call settles in the end, appends failing or not.
C38_EverySetSettles ==
    /\ [](q_queue # <<>> => (q_worker /\ q_loops # <<>>))
    /\ \A k \in 1..MaxCalls :
         (Len(i_results) >= k)
           ~> (Len(i_results) >= k /\ i_results[k].state # "pending")

\* Two calls waited in the queue together behind a run whose append then
\* failed, and every call has settled.
C38_Witness ==
    /\ q_waited
    /\ Len(i_results) = MaxCalls
    /\ i_results[1].state = "rejected"
    /\ \A k \in 1..Len(i_results) : i_results[k].state # "pending"
    /\ q_loops = <<>>

\* C39: a set_index run that throws rejects the promise of its own call and
\* of no other; while calls wait a poll loop keeps working; and the runs
\* start in the order of the calls, each after every earlier call settled.
C39_ThrowRejectsOnlyItsCall ==
    [][ /\ \A k \in 1..Len(i_results) :
             ( i_results[k].state = "pending"
               /\ i_results'[k].state = "rejected" )
             => /\ \A j \in (1..Len(i_results)) \ {k} :
                     i_results'[j] = i_results[j]
                /\ k \in Running(q_loops)
                /\ q_worker'
                /\ q_loops' # <<>>
        /\ \A k \in 1..Len(i_results') :
             ( k \in Running(q_loops') /\ k \notin Running(q_loops) )
             => \A j \in 1..(k - 1) : i_results'[j].state # "pending" ]_vars

\* A run started after the run of an earlier call had thrown, while a third
\* call was waiting.
C39_Witness ==
    /\ i_results # <<>>
    /\ i_results[1].state = "rejected"
    /\ 2 \in Running(q_loops)
    /\ Len(q_queue) = 1

\* ------------------------------------------ claims on the index scan

\* The record numbers of file that Index.parse reads and Decoder accepts
\* for key: their offsets are not seen yet.
UnseenMatches(file, offsets, key) ==
    {i \in 0..(Len(file) - 1) :
        /\ (i * RecordSize) \notin offsets
        /\ Decoder(RecordAt(file, i)).ok
        /\ Decoder(RecordAt(file, i)).key = key}

\* C31: an Index.get that misses the cache and finds records for the key
\* among those not seen yet returns the heads of the last of them, and
\* caches that record.
C31_GetReturnsLastMatch ==
    [][ \A n \in Names :
          LET key_hex == hash(n)
              matches == UnseenMatches(i_file, i_offsets, key_hex)
          IN  ( get(n) /\ ~CacheHas(i_cache, key_hex) /\ matches # {} )
              => LET last == Max(matches)
                     value == Decoder(RecordAt(i_file, last))
                 IN  /\ i_get'.result = Found(value.start_chunk,
                                              value.start_matedata)
                     /\ i_cache'[key_hex] =
                            CacheEntry(last * RecordSize, value.start_chunk,
                                       value.start_matedata) ]_vars

\* The record numbers of file that hold a record Decoder accepts.
WellFormedRecords(file) ==
    {i \in 0..(Len(file) - 1) : Decoder(RecordAt(file, i)).ok}

\* C32: load_all ends on every found file, whatever records it holds: it
\* never reads past the end of the file, and when it has ended every
\* well-formed record is seen and its key cached, the cache holding for
\* each key the last well-formed record of that key.
C32_ScanSkipsMalformed ==
    /\ scan.pc = "load" => scan.i <= Len(i_file)
    /\ scan.pc = "done"
       => \A i \in WellFormedRecords(i_file) :
            LET value == Decoder(RecordAt(i_file, i))
                last == Max({j \in WellFormedRecords(i_file) :
                               Decoder(RecordAt(i_file, j)).key = value.key})
            IN  /\ (i * RecordSize) \in i_offsets
                /\ CacheHas(i_cache, value.key)
                /\ i_cache[value.key].offset = last * RecordSize

\* load_all has ended on a file with a record of bad magic between two
\* well-formed ones, the second of which is cached.
C32_Witness ==
    /\ scan.pc = "done"
    /\ Len(i_file) = MaxRecords
    /\ Decoder(RecordAt(i_file, 0)).ok
    /\ RecordAt(i_file, 1).magic # Magic
    /\ Decoder(RecordAt(i_file, 2)).ok
    /\ i_cache[RecordAt(i_file, 2).key].offset = 2 * RecordSize

\* C33: Chunk.encoder takes every id from 0 to 2^32 - 1 and every
\* next_track from 0 to 2^16 - 1, stores each as the unsigned number it
\* is, and Chunk.decoder gives both back from the packet (a next_track of
\* 0 as no track).
C33_UnsignedRoundTrip ==
    /\ codec.pc # "thrown"
    /\ codec.pc = "encoded"
       => /\ codec.packet.id = codec.chunk.id
          /\ codec.packet.next_track =
                IF codec.chunk.next_track = Undefined THEN 0
                ELSE codec.chunk.next_track
    /\ (codec.pc = "decoded" /\ codec.packet = encoder(codec.chunk))
       => /\ codec.result.id = codec.chunk.id
          /\ codec.result.next_track =
                IF codec.chunk.next_track = 0 THEN Undefined
                ELSE codec.chunk.next_track

\* ------------------------------------- claims on offsets and track sizes

\* C36: every offset Track.alloc returns is at least 16 and is 16 plus a
\* multiple of chunk_size, and the size of an open track is never below 16.
C36_AllocOffsetsAligned ==
    /\ t_call.op = "alloc"
       => /\ t_call.index >= HeaderSize
          /\ (t_call.index - HeaderSize) % chunk_size = 0
    /\ \A t \in TrackIds : tracks[t].open => tracks[t].size >= HeaderSize

\* C37: whenever no Track method is running, free_start is 0 exactly when
\* free_end is 0, in the Track object and, once write_end has written it,
\* in the header of the track file.
C37_HeadAndTailTogether ==
    del.pc # "run"
    => \A t \in TrackIds :
         tracks[t].open
         => /\ (tracks[t].free_start = 0) <=> (tracks[t].free_end = 0)
            /\ (t_call.op = "write_end" /\ t_call.track = t)
               => ((disk[t].head = 0) <=> (disk[t].tail = 0))

\* C40: the tracks a write stream is allocated on never decrease, and every
\* chunk a write stream stored with a successor names in its next_track
\* field a track that is not below its own: on a track above 0 the field is
\* never 0.
C40_ChainTracksNeverDecrease ==
    /\ \A i, j \in 1..Len(writer.allocs) :
         i < j => writer.allocs[i][1] <= writer.allocs[j][1]
    /\ \A t \in TrackIds :
         \A o \in DOMAIN disk[t].chunks :
            LET packet == disk[t].chunks[o]
            IN  (packet.valid = 1 /\ packet.next # 0)
                => readInt16BE(packet.next_track) >= t

\* A write stream stored on track 1 a chunk with a successor on track 1.
C40_Witness ==
    /\ tracks[1].open
    /\ \E o \in DOMAIN disk[1].chunks :
         /\ disk[1].chunks[o].valid = 1
         /\ disk[1].chunks[o].next # 0
         /\ decoder(disk[1].chunks[o]).next_track = 1

====
